---- MODULE Spec2Model ----
(***************************************************************************)
(* RdfsImportEngine (schema_automator/importers/rdfs_import_engine.py):    *)
(* the construction of the mapping tables (__post_init__), the IRI to      *)
(* local-name resolver (iri_to_name / _as_name) and the conversion of an   *)
(* RDFS graph into a LinkML schema (convert / _dict_for_subject).          *)
(*                                                                         *)
(* Strings that the program takes apart (IRIs, names, canonical URIs) are  *)
(* sequences of one-character strings.  Vocabulary IRIs that are only      *)
(* compared for equality (predicates, type markers) are TLA+ strings.      *)
(***************************************************************************)
EXTENDS Integers, Sequences, FiniteSets, TLC

VARIABLES
    pc,                          \* position of the running operation
    v_in,                        \* iri_to_name: the argument v
    n_out,                       \* iri_to_name: the results of the calls made so far
    mappings,                    \* self.mappings, the name -> IRI registry
    initial_metamodel_mappings,  \* caller overrides, an ordered dict: a sequence of items
    sv,                          \* what metamodel introspection declares, per element
    metamodel_mappings,          \* forward table: name -> list of IRIs
    reverse_metamodel_mappings,  \* reverse table: IRI -> list of names
    idx,                         \* __post_init__: index into the loop being run
    g,                           \* convert: the parsed graph, a set of triples
    identifier,                  \* convert: the identifier argument, or None
    props,                       \* convert: set(props), the discovered field subjects
    prop_order,                  \* convert: the field subjects in the order the loop took them
    cls_slots,                   \* convert: class name -> list of field names
    slots,                       \* convert: schema.slots, in insertion order
    rdfs_classes,                \* convert: set(rdfs_classes), the discovered class subjects
    class_order,                 \* convert: the class subjects in the order the loop took them
    classes,                     \* convert: schema.classes, in insertion order
    warnings                     \* the predicates logging.warning was called for

engine == <<initial_metamodel_mappings, sv, metamodel_mappings, reverse_metamodel_mappings>>
naming == <<v_in, n_out, mappings>>
conversion == <<g, identifier, props, prop_order, cls_slots, slots, rdfs_classes,
                class_order, classes, warnings>>
vars == <<pc, naming, engine, idx, conversion>>

(***************************************************************************)
(* Bounds                                                                  *)
(***************************************************************************)
MaxLen == 3
MaxOverrides == 2

\* The value of an absent optional (Python None).
None == "None"

(***************************************************************************)
(* iri_to_name / _as_name                                                  *)
(***************************************************************************)
Alphabet == {"#", "/", ":", "a", "b"}

RECURSIVE StringsUpTo(_)
StringsUpTo(n) ==
    IF n = 0 THEN {<<>>}
    ELSE LET r == StringsUpTo(n - 1)
         IN  r \cup {Append(s, c) : s \in {x \in r : Len(x) = n - 1}, c \in Alphabet}

\* sep in v_str
Contains(v_str, sep) == \E i \in 1..Len(v_str) : v_str[i] = sep

\* v_str.split(sep, 1)[-1]: what follows the first occurrence of sep
SplitLast_First(v_str, sep) ==
    LET first == CHOOSE i \in 1..Len(v_str) :
                     /\ v_str[i] = sep
                     /\ \A j \in 1..(i - 1) : v_str[j] # sep
    IN  SubSeq(v_str, first + 1, Len(v_str))

\* v_str.split(sep)[-1]: what follows the last occurrence of sep
SplitLast(v_str, sep) ==
    LET last == CHOOSE i \in 1..Len(v_str) :
                    /\ v_str[i] = sep
                    /\ \A j \in (i + 1)..Len(v_str) : v_str[j] # sep
    IN  SubSeq(v_str, last + 1, Len(v_str))

Separators == <<"#", "/", ":">>

RECURSIVE AsNameFrom(_, _)
AsNameFrom(v_str, k) ==
    IF k > Len(Separators) THEN v_str
    ELSE IF Contains(v_str, Separators[k]) THEN SplitLast(v_str, Separators[k])
    ELSE AsNameFrom(v_str, k + 1)

as_name(v) == AsNameFrom(v, 1)

\* iri_to_name returns n and records n -> v in self.mappings when n differs from v.
iri_to_name(v) == as_name(v)

RegistryAfter(reg, v) ==
    LET n == as_name(v)
    IN  IF n # v
        THEN [k \in (DOMAIN reg) \cup {n} |-> IF k = n THEN v ELSE reg[k]]
        ELSE reg

EmptyMap == [k \in {} |-> None]

(***************************************************************************)
(* SpecName: iri_to_name applied to an IRI, then to its own result.        *)
(***************************************************************************)
InitName ==
    /\ pc = "name"
    /\ v_in \in StringsUpTo(MaxLen)
    /\ n_out = <<>>
    /\ mappings = EmptyMap
    /\ initial_metamodel_mappings = <<>>
    /\ sv = <<>>
    /\ metamodel_mappings = EmptyMap
    /\ reverse_metamodel_mappings = EmptyMap
    /\ idx = 0
    /\ g = {}
    /\ identifier = None
    /\ props = {}
    /\ prop_order = <<>>
    /\ cls_slots = EmptyMap
    /\ slots = <<>>
    /\ rdfs_classes = {}
    /\ class_order = <<>>
    /\ classes = <<>>
    /\ warnings = {}

Resolve ==
    /\ pc = "name"
    /\ Len(n_out) = 0
    /\ n_out' = <<iri_to_name(v_in)>>
    /\ mappings' = RegistryAfter(mappings, v_in)
    /\ UNCHANGED <<pc, v_in, engine, idx, conversion>>

ResolveAgain ==
    /\ pc = "name"
    /\ Len(n_out) = 1
    /\ n_out' = Append(n_out, iri_to_name(n_out[1]))
    /\ mappings' = RegistryAfter(mappings, n_out[1])
    /\ UNCHANGED <<pc, v_in, engine, idx, conversion>>

NextName == Resolve \/ ResolveAgain

SpecName == InitName /\ [][NextName]_vars

(***************************************************************************)
(* __post_init__: the three tiers that fill the mapping tables             *)
(***************************************************************************)
\* An ordered dict is a sequence of items [k, vs]; a table under construction
\* is a function from the keys present to lists.
Item(k, vs) == [k |-> k, vs |-> vs, is_list |-> TRUE]
\* an override whose value is a lone IRI instead of a list
Lone(k, v) == [k |-> k, vs |-> v, is_list |-> FALSE]

DEFAULT_METAMODEL_MAPPINGS == <<
    Item("is_a", <<"rdfs:subClassOf", "skos:broader">>),
    Item("domain_of", <<"http:domainIncludes", "https:domainIncludes">>),
    Item("range", <<"http:rangeIncludes", "https:rangeIncludes">>),
    Item("exact_mappings", <<"owl:sameAs", "http:sameAs">>),
    Item("ClassDefinition", <<"rdfs:Class", "owl:Class", "skos:Concept">>),
    Item("SlotDefinition", <<"rdf:Property", "owl:ObjectProperty",
                             "owl:DatatypeProperty", "owl:AnnotationProperty">>) >>

\* defaultdict(list) read: the list under k, empty when k is absent
Get(m, k) == IF k \in DOMAIN m THEN m[k] ELSE <<>>

\* m[k] = vs
Put(m, k, vs) == [x \in (DOMAIN m) \cup {k} |-> IF x = k THEN vs ELSE m[x]]

\* m[k].extend(vs)
Extend(m, k, vs) == Put(m, k, Get(m, k) \o vs)

\* for v in vs: rev[v].append(k)
RECURSIVE AppendEach(_, _, _)
AppendEach(rev, vs, k) ==
    IF vs = <<>> THEN rev
    ELSE AppendEach(Extend(rev, Head(vs), <<k>>), Tail(vs), k)

\* if not isinstance(vs, list): vs = [vs]
AsList(item) == IF item.is_list THEN item.vs ELSE <<item.vs>>

\* One iteration of the loops at lines 67-70 and 72-78.
RegisterForward(fwd, item) == Extend(fwd, item.k, AsList(item))
RegisterReverse(rev, item) == AppendEach(rev, AsList(item), item.k)

\* self.metamodel_mappings[e.name].extend(mappings)
IntrospectForward_Extend(fwd, e) == Extend(fwd, e.k, e.vs)

\* One iteration of the loop at lines 81-88: the element's declared mappings
\* are appended to the reverse table and REPLACE the forward entry.
IntrospectForward(fwd, e) == Put(fwd, e.k, e.vs)
IntrospectReverse(rev, e) == AppendEach(rev, e.vs, e.k)

\* The metamodel elements of the model and two tables of declared mappings
\* (sv.all_elements() with sv.get_mappings(e.name, expand=True) flattened).
MetaDeclared == <<
    Item("is_a", <<"linkml:is_a">>),
    Item("domain_of", <<"linkml:domain_of", "http:domainIncludes">>),
    Item("range", <<"linkml:range">>),
    Item("exact_mappings", <<"skos:exactMatch">>),
    Item("mixins", <<"linkml:mixins">>),
    Item("slots", <<"linkml:slots">>),
    Item("name", <<"rdfs:label">>),
    Item("title", <<"dcterms:title">>) >>

MetaBare == [n \in 1..Len(MetaDeclared) |-> Item(MetaDeclared[n].k, <<>>)]

ElementNames == {MetaDeclared[n].k : n \in 1..Len(MetaDeclared)}

\* Caller overrides: ordered dicts of at most MaxOverrides items with distinct keys.
OverrideItems == {
    Lone("slots", "ex:hasSlot"),
    Item("mixins", <<"ex:mixin">>),
    Item("domain_of", <<"ex:domain">>),
    Lone("ClassDefinition", "ex:Kind"),
    Item("rangeIncludes", <<"https:rangeIncludes", "ex:domain">>) }

RECURSIVE OrderedDicts(_)
OrderedDicts(n) ==
    IF n = 0 THEN {<<>>}
    ELSE LET r == OrderedDicts(n - 1)
         IN  r \cup {Append(d, it) : d \in {x \in r : Len(x) = n - 1},
                                     it \in OverrideItems}

DistinctKeys(d) == \A a, b \in 1..Len(d) : a # b => d[a].k # d[b].k

(***************************************************************************)
(* SpecPostInit: construction, one loop iteration per step.                *)
(***************************************************************************)
InitPostInit ==
    /\ pc = "defaults"
    /\ idx = 1
    /\ initial_metamodel_mappings \in {d \in OrderedDicts(MaxOverrides) : DistinctKeys(d)}
    /\ sv \in {MetaDeclared, MetaBare}
    /\ metamodel_mappings = EmptyMap
    /\ reverse_metamodel_mappings = EmptyMap
    /\ v_in = <<>>
    /\ n_out = <<>>
    /\ mappings = EmptyMap
    /\ g = {}
    /\ identifier = None
    /\ props = {}
    /\ prop_order = <<>>
    /\ cls_slots = EmptyMap
    /\ slots = <<>>
    /\ rdfs_classes = {}
    /\ class_order = <<>>
    /\ classes = <<>>
    /\ warnings = {}

\* lines 67-70
DefaultsStep ==
    /\ pc = "defaults"
    /\ metamodel_mappings' = RegisterForward(metamodel_mappings, DEFAULT_METAMODEL_MAPPINGS[idx])
    /\ reverse_metamodel_mappings' =
           RegisterReverse(reverse_metamodel_mappings, DEFAULT_METAMODEL_MAPPINGS[idx])
    /\ IF idx < Len(DEFAULT_METAMODEL_MAPPINGS)
       THEN idx' = idx + 1 /\ pc' = pc
       ELSE /\ idx' = 1
            \* line 71: an empty dict of overrides is falsy
            /\ pc' = IF Len(initial_metamodel_mappings) > 0 THEN "overrides" ELSE "introspect"
    /\ UNCHANGED <<naming, initial_metamodel_mappings, sv, conversion>>

\* lines 72-78
OverridesStep ==
    /\ pc = "overrides"
    /\ metamodel_mappings' = RegisterForward(metamodel_mappings, initial_metamodel_mappings[idx])
    /\ reverse_metamodel_mappings' =
           RegisterReverse(reverse_metamodel_mappings, initial_metamodel_mappings[idx])
    /\ IF idx < Len(initial_metamodel_mappings)
       THEN idx' = idx + 1 /\ pc' = pc
       ELSE idx' = 1 /\ pc' = "introspect"
    /\ UNCHANGED <<naming, initial_metamodel_mappings, sv, conversion>>

\* lines 81-88
IntrospectStep ==
    /\ pc = "introspect"
    /\ metamodel_mappings' = IntrospectForward(metamodel_mappings, sv[idx])
    /\ reverse_metamodel_mappings' = IntrospectReverse(reverse_metamodel_mappings, sv[idx])
    /\ IF idx < Len(sv)
       THEN idx' = idx + 1 /\ pc' = pc
       ELSE idx' = 0 /\ pc' = "ready"
    /\ UNCHANGED <<naming, initial_metamodel_mappings, sv, conversion>>

NextPostInit == DefaultsStep \/ OverridesStep \/ IntrospectStep

SpecPostInit == InitPostInit /\ [][NextPostInit]_vars

\* The tables a finished construction leaves, computed by running the same steps.
RECURSIVE FoldForward(_, _, _)
FoldForward(fwd, items, n) ==
    IF n > Len(items) THEN fwd ELSE FoldForward(RegisterForward(fwd, items[n]), items, n + 1)

RECURSIVE FoldReverse(_, _, _)
FoldReverse(rev, items, n) ==
    IF n > Len(items) THEN rev ELSE FoldReverse(RegisterReverse(rev, items[n]), items, n + 1)

RECURSIVE FoldIntrospectForward(_, _, _)
FoldIntrospectForward(fwd, es, n) ==
    IF n > Len(es) THEN fwd
    ELSE FoldIntrospectForward(IntrospectForward(fwd, es[n]), es, n + 1)

RECURSIVE FoldIntrospectReverse(_, _, _)
FoldIntrospectReverse(rev, es, n) ==
    IF n > Len(es) THEN rev
    ELSE FoldIntrospectReverse(IntrospectReverse(rev, es[n]), es, n + 1)

ForwardAfterPostInit(overrides, meta) ==
    FoldIntrospectForward(
        FoldForward(FoldForward(EmptyMap, DEFAULT_METAMODEL_MAPPINGS, 1), overrides, 1),
        meta, 1)

ReverseAfterPostInit(overrides, meta) ==
    FoldIntrospectReverse(
        FoldReverse(FoldReverse(EmptyMap, DEFAULT_METAMODEL_MAPPINGS, 1), overrides, 1),
        meta, 1)

(***************************************************************************)
(* The input graph                                                         *)
(***************************************************************************)
MaxTriples == 3

Triple(s, p, o) == [s |-> s, p |-> p, o |-> o]

\* Subjects and objects: a/W and b/W share the local name W, a/p and b/p the
\* local name p; only the namespace a/ has a declared prefix.
ClsW  == <<"a", "/", "W">>
ClsW2 == <<"b", "/", "W">>
ClsV  == <<"a", "/", "V">>
PropP == <<"a", "/", "p">>
PropP2 == <<"b", "/", "p">>
PropQ == <<"a", "/", "q">>
TyS   == <<"x", ":", "s">>
TyT   == <<"x", ":", "t">>

\* g.namespaces(): the prefixes the parsed document declares
Namespaces == {[prefix |-> <<"e">>, ns |-> <<"a", "/">>]}

TripleUniverse ==
    {Triple(c, "rdf:type", "rdfs:Class") : c \in {ClsW, ClsW2, ClsV}}
    \cup {Triple(p, "rdf:type", "rdf:Property") : p \in {PropP, PropQ}}
    \cup {Triple(ClsW, "rdfs:subClassOf", ClsV), Triple(ClsV, "rdfs:subClassOf", ClsW),
          Triple(ClsW2, "rdfs:subClassOf", ClsV)}
    \cup {Triple(PropP, "http:domainIncludes", c) : c \in {ClsW, ClsW2, ClsV}}
    \cup {Triple(PropQ, "http:domainIncludes", c) : c \in {ClsW, ClsV}}
    \cup {Triple(PropQ, "https:domainIncludes", ClsW), Triple(PropP2, "http:domainIncludes", ClsW)}
    \cup {Triple(PropP, "http:rangeIncludes", TyS), Triple(PropP, "http:rangeIncludes", TyT),
          Triple(PropQ, "http:rangeIncludes", TyS)}
    \cup {Triple(ClsW, "ex:hasSlot", PropP), Triple(ClsV, "ex:hasSlot", PropQ)}
    \cup {Triple(ClsW, "ex:mixin", ClsV)}
    \cup {Triple(ClsV, "rdfs:label", TyS)}
    \cup {Triple(PropP, "ex:note", TyS), Triple(ClsW, "ex:note", TyS)}

RECURSIVE GraphsUpTo(_)
GraphsUpTo(n) ==
    IF n = 0 THEN {{}}
    ELSE LET r == GraphsUpTo(n - 1)
         IN  r \cup {x \cup {t} : x \in r, t \in TripleUniverse}

\* The overrides a caller of convert may have constructed the engine with.
ConvertOverrides == <<Lone("slots", "ex:hasSlot"), Item("mixins", <<"ex:mixin">>)>>

(***************************************************************************)
(* What the metamodel (linkml_runtime) says about the slots used here      *)
(***************************************************************************)
\* sv.class_induced_slots(ClassDefinition.class_name), line 89
classdef_slots == {"name", "title", "is_a", "mixins", "slots", "exact_mappings"}
\* sv.class_induced_slots(SlotDefinition.class_name), line 90
slotdef_slots == {"name", "title", "is_a", "mixins", "domain_of", "range", "exact_mappings"}
\* metaslot.multivalued, line 229
Multivalued == {"mixins", "slots", "domain_of", "exact_mappings"}
\* metaslot.range is uriorcurie or uri, line 249
UriRanged == {"exact_mappings"}

(***************************************************************************)
(* Helpers of convert                                                      *)
(***************************************************************************)
\* _rdfs_metamodel_iri: self.metamodel_mappings.get(name, [])
rdfs_metamodel_iri(name) == Get(metamodel_mappings, name)

\* _element_from_iri: the first name registered for the IRI, or None
element_from_iri(iri) ==
    LET r == Get(reverse_metamodel_mappings, iri)
    IN  IF Len(r) > 0 THEN r[1] ELSE None

\* _object_to_value for an IRI object: kept whole under a URI-ranged metaslot,
\* else resolved to its local name.
object_to_value(obj, metaslot_name) ==
    IF metaslot_name \in UriRanged THEN obj ELSE iri_to_name(obj)

Range(f) == {f[n] : n \in DOMAIN f}

RECURSIVE Orderings(_)
Orderings(S) ==
    IF S = {} THEN {<<>>}
    ELSE UNION {{<<x>> \o r : r \in Orderings(S \ {x})} : x \in S}

\* g.predicate_objects(s)
predicate_objects(graph, s) == {t \in graph : t.s = s}

\* An entry of init_dict: a list for a multivalued metaslot, else a scalar.
ListValue(vs) == [is_list |-> TRUE, v |-> vs]
ScalarValue(x) == [is_list |-> FALSE, v |-> x]

\* One iteration of the loop of _dict_for_subject (lines 210-234) on the
\* record and warnings built so far.
DictStep(acc, pp, obj, subject_type) ==
    IF pp = "rdf:type" THEN acc
    ELSE LET metaslot_name == element_from_iri(pp)
         IN  IF subject_type = "class" /\ metaslot_name \notin classdef_slots THEN acc
             ELSE IF subject_type = "slot" /\ metaslot_name \notin slotdef_slots THEN acc
             ELSE IF metaslot_name = None
                  THEN [acc EXCEPT !.warned = @ \cup {pp}]
             ELSE LET key == IF metaslot_name = "name" THEN "title" ELSE metaslot_name
                      v == object_to_value(obj, key)
                      \* _object_to_value calls iri_to_name, which records the name
                      reg == IF key \in UriRanged THEN acc.reg ELSE RegistryAfter(acc.reg, obj)
                  IN  IF key \in Multivalued
                      THEN [acc EXCEPT !.reg = reg,
                                       !.d = Put(@, key,
                               ListValue(Append(IF key \in DOMAIN acc.d THEN acc.d[key].v
                                                ELSE <<>>, v)))]
                      ELSE [acc EXCEPT !.reg = reg, !.d = Put(@, key, ScalarValue(v))]

RECURSIVE DictFold(_, _, _, _)
DictFold(acc, pos, n, subject_type) ==
    IF n > Len(pos) THEN acc
    ELSE DictFold(DictStep(acc, pos[n].p, pos[n].o, subject_type), pos, n + 1, subject_type)

\* _dict_for_subject, given the order in which the graph yields the triples and
\* the registry self.mappings as it stands: the record, the predicates warned
\* about and the registry afterwards
dict_for_subject(pos, subject_type, reg) ==
    DictFold([d |-> EmptyMap, warned |-> {}, reg |-> reg], pos, 1, subject_type)

\* del init_dict[key]
Del(d, key) == [k \in (DOMAIN d) \ {key} |-> d[k]]

\* URIRef.n3(g.namespace_manager): prefix:local when the part before the local
\* name is a declared namespace, else the IRI in angle brackets.
NameBreakers == {"#", "/", ":", "<", ">"}
SplitAt(u) ==
    IF \E n \in 1..Len(u) : u[n] \in NameBreakers
    THEN CHOOSE n \in 1..Len(u) :
             /\ u[n] \in NameBreakers
             /\ \A m \in (n + 1)..Len(u) : u[m] \notin NameBreakers
    ELSE 0
n3(u) ==
    LET at == SplitAt(u)
        declared == {ns \in Namespaces : ns.ns = SubSeq(u, 1, at)}
    IN  IF at > 0 /\ at < Len(u) /\ declared # {}
        THEN (CHOOSE ns \in declared : TRUE).prefix \o <<":">> \o SubSeq(u, at + 1, Len(u))
        ELSE <<"<">> \o u \o <<">">>

\* for x in init_dict["domain_of"]: cls_slots[x].insert(0, sn)
RECURSIVE AppendToEach_Insert(_, _, _)
AppendToEach_Insert(cs, xs, sn) ==
    IF xs = <<>> THEN cs
    ELSE AppendToEach_Insert(Put(cs, Head(xs), <<sn>> \o Get(cs, Head(xs))), Tail(xs), sn)

\* for x in init_dict["domain_of"]: cls_slots[x].append(sn)
RECURSIVE AppendToEach(_, _, _)
AppendToEach(cs, xs, sn) ==
    IF xs = <<>> THEN cs
    ELSE AppendToEach(Extend(cs, Head(xs), <<sn>>), Tail(xs), sn)

\* Position of the definition called name in an ordered collection, 0 if absent
IndexOf(coll, name) ==
    IF \E n \in 1..Len(coll) : coll[n].name = name
    THEN CHOOSE n \in 1..Len(coll) : coll[n].name = name
    ELSE 0

\* collection[name] = definition: replaced in place when present, else appended
Store(coll, def) ==
    IF IndexOf(coll, def.name) > 0
    THEN [coll EXCEPT ![IndexOf(coll, def.name)] = def]
    ELSE Append(coll, def)

\* not x, for a name or None
Falsy(x) == x = None \/ x = <<>>

Attr(def, key) == IF key \in DOMAIN def.attrs THEN def.attrs[key].v ELSE None

\* if not c.is_a and not c.mixins
IsRoot(c) == Falsy(Attr(c, "is_a")) /\ Falsy(Attr(c, "mixins"))

(***************************************************************************)
(* Spec: convert, one loop iteration per step.                             *)
(***************************************************************************)
Init ==
    /\ pc = "start"
    /\ g \in GraphsUpTo(MaxTriples)
    /\ identifier \in {None, <<"p">>}
    /\ initial_metamodel_mappings \in {<<>>, ConvertOverrides}
    /\ sv = MetaDeclared
    /\ metamodel_mappings = ForwardAfterPostInit(initial_metamodel_mappings, sv)
    /\ reverse_metamodel_mappings = ReverseAfterPostInit(initial_metamodel_mappings, sv)
    /\ idx = 0
    /\ v_in = <<>>
    /\ n_out = <<>>
    /\ mappings = EmptyMap
    /\ props = {}
    /\ prop_order = <<>>
    /\ cls_slots = EmptyMap
    /\ slots = <<>>
    /\ rdfs_classes = {}
    /\ class_order = <<>>
    /\ classes = <<>>
    /\ warnings = {}

\* lines 135-152: explicit properties, then implicit ones
ExplicitProps ==
    {t.s : t \in {x \in g : x.p = "rdf:type" /\ x.o \in Range(rdfs_metamodel_iri("SlotDefinition"))}}
ImplicitProps ==
    {t.s : t \in {x \in g : x.p \in Range(Get(metamodel_mappings, "domain_of")
                                          \o Get(metamodel_mappings, "rangeIncludes"))}}

DiscoverFields ==
    /\ pc = "start"
    /\ props' = ExplicitProps \cup ImplicitProps
    \* reading a defaultdict with [] creates the missing key
    /\ metamodel_mappings' = Extend(Extend(metamodel_mappings, "domain_of", <<>>),
                                    "rangeIncludes", <<>>)
    /\ pc' = "slots"
    /\ UNCHANGED <<naming, idx, initial_metamodel_mappings, sv, reverse_metamodel_mappings,
                   g, identifier, prop_order, cls_slots, slots, rdfs_classes, class_order,
                   classes, warnings>>

\* lines 154-174: one field subject
SlotStep ==
    /\ pc = "slots"
    /\ \E p \in props \ Range(prop_order) :
       \E pos \in Orderings(predicate_objects(g, p)) :
       \E raise \in BOOLEAN :
          LET sn == iri_to_name(p)
              r == dict_for_subject(pos, "slot", RegistryAfter(mappings, p))
              domains == IF "domain_of" \in DOMAIN r.d THEN r.d["domain_of"].v ELSE <<>>
              d1 == Del(r.d, "domain_of")
              many == "range" \in DOMAIN d1 /\ d1["range"].is_list
              \* line 168 reads init_dict["rangeIncludes"]
              key_error == many /\ "rangeIncludes" \notin DOMAIN d1
              d2 == IF many /\ ~key_error
                    THEN Del(Put(d1, "any_of", ListValue(d1["rangeIncludes"].v)), "range")
                    ELSE d1
              slot == [name |-> sn, attrs |-> d2, slot_uri |-> n3(p)]
              exists == IndexOf(slots, sn) > 0
          IN  /\ prop_order' = Append(prop_order, p)
              /\ mappings' = r.reg
              /\ warnings' = warnings \cup r.warned
              /\ cls_slots' = AppendToEach(cls_slots, domains, sn)
              /\ IF key_error \/ (exists /\ raise)
                 THEN pc' = "error" /\ slots' = slots
                 ELSE pc' = pc /\ slots' = Store(slots, slot)
    /\ UNCHANGED <<v_in, n_out, engine, idx, g, identifier, props, rdfs_classes, class_order,
                   classes>>

\* lines 176-178: subjects typed with a class marker
ExplicitClasses ==
    {t.s : t \in {x \in g : x.p = "rdf:type"
                            /\ x.o \in Range(rdfs_metamodel_iri("ClassDefinition"))}}

ImplicitClasses_SubjectsOnly == {t.s : t \in {x \in g : x.p = "rdfs:subClassOf"}}

\* lines 180-183: both ends of every subClassOf triple
ImplicitClasses ==
    {t.s : t \in {x \in g : x.p = "rdfs:subClassOf"}}
    \cup {t.o : t \in {x \in g : x.p = "rdfs:subClassOf"}}

DiscoverClasses ==
    /\ pc = "slots"
    /\ props \subseteq Range(prop_order)
    /\ rdfs_classes' = ExplicitClasses \cup ImplicitClasses
    /\ pc' = "classes"
    /\ UNCHANGED <<naming, engine, idx, g, identifier, props, prop_order, cls_slots, slots,
                   class_order, classes, warnings>>

\* lines 184-190: one class subject
ClassStep ==
    /\ pc = "classes"
    /\ \E s \in rdfs_classes \ Range(class_order) :
       \E pos \in Orderings(predicate_objects(g, s)) :
       \E raise \in BOOLEAN :
          LET cn == iri_to_name(s)
              r == dict_for_subject(pos, "class", RegistryAfter(mappings, s))
              \* c.slots = cls_slots.get(cn, []) replaces what the record listed
              c == [name |-> cn, attrs |-> Del(r.d, "slots"), slots |-> Get(cls_slots, cn),
                    class_uri |-> n3(s)]
              exists == IndexOf(classes, cn) > 0
          IN  /\ class_order' = Append(class_order, s)
              /\ mappings' = r.reg
              /\ warnings' = warnings \cup r.warned
              /\ IF exists /\ raise
                 THEN pc' = "error" /\ classes' = classes
                 ELSE pc' = pc /\ classes' = Store(classes, c)
    /\ UNCHANGED <<v_in, n_out, engine, idx, g, identifier, props, prop_order, cls_slots,
                   slots, rdfs_classes>>

\* lines 194-197 on one class
WithIdentifier(c) ==
    IF IsRoot(c) /\ identifier \notin Range(c.slots)
    THEN [c EXCEPT !.slots = Append(@, identifier)]
    ELSE c

\* lines 191-198: the identifier field, then return
Finish ==
    /\ pc = "classes"
    /\ rdfs_classes \subseteq Range(class_order)
    /\ IF identifier # None
       THEN /\ slots' = Store(slots, [name |-> identifier,
                                     attrs |-> [k \in {"identifier", "range"} |->
                                                  IF k = "identifier" THEN ScalarValue(TRUE)
                                                  ELSE ScalarValue("uriorcurie")],
                                     slot_uri |-> None])
            /\ classes' = [n \in DOMAIN classes |-> WithIdentifier(classes[n])]
       ELSE UNCHANGED <<slots, classes>>
    /\ pc' = "done"
    /\ UNCHANGED <<naming, engine, idx, g, identifier, props, prop_order, cls_slots,
                   rdfs_classes, class_order, warnings>>

Next == DiscoverFields \/ SlotStep \/ DiscoverClasses \/ ClassStep \/ Finish

Spec == Init /\ [][Next]_vars

(***************************************************************************)
(* Properties                                                              *)
(***************************************************************************)
\* Number of occurrences of x in the list xs
Count(xs, x) == Cardinality({n \in DOMAIN xs : xs[n] = x})

\* The definition called name in an ordered collection
Named(coll, name) == coll[IndexOf(coll, name)]

\* The record _dict_for_subject resolves for s; its keys and the values of its
\* lists do not depend on the order the graph yields the triples in.
RecordOf(s, subject_type) ==
    dict_for_subject(CHOOSE pos \in Orderings(predicate_objects(g, s)) : TRUE,
                     subject_type, EmptyMap).d

ListOf(d, key) == IF key \in DOMAIN d THEN d[key].v ELSE <<>>

\* some occurrence of x in xs comes before some occurrence of y
Before(xs, x, y) ==
    \E a, b \in DOMAIN xs : xs[a] = x /\ xs[b] = y /\ a < b

\* C1: with an identifier requested, every class of the returned schema that has
\* neither a parent nor mixins lists the identifier exactly once, and every other
\* class has the slot list it would have had without an identifier.
C1_IdentifierOnceOnRoots ==
    (pc = "done" /\ identifier # None) =>
        \A n \in DOMAIN classes :
            IF IsRoot(classes[n])
            THEN Count(classes[n].slots, identifier) = 1
            ELSE classes[n].slots = Get(cls_slots, classes[n].name)

\* t is a domain triple of field subject p pointing at w: its predicate is mapped
\* to domain_of in the forward table (discovery) and the reverse table (resolution)
DomainTriple(t, p, w) ==
    /\ t.s = p
    /\ element_from_iri(t.p) = "domain_of"
    /\ t.p \in Range(Get(metamodel_mappings, "domain_of"))
    /\ t.o = w

\* The C2 scenario for the class IRI w: two properties p and q, each with a domain
\* triple pointing at w, and w never typed as a class.
WidgetScenario(w, p, q) ==
    /\ p # q
    /\ \E t \in g : DomainTriple(t, p, w)
    /\ \E t \in g : DomainTriple(t, q, w)
    /\ w \notin ExplicitClasses

WidgetClassHasBoth(w, p, q) ==
    /\ IndexOf(classes, iri_to_name(w)) > 0
    /\ Cardinality({n \in DOMAIN classes : classes[n].name = iri_to_name(w)}) = 1
    /\ LET sl == Named(classes, iri_to_name(w)).slots
       IN  /\ iri_to_name(p) \in Range(sl)
           /\ iri_to_name(q) \in Range(sl)
           /\ (iri_to_name(p) # iri_to_name(q) /\ Before(prop_order, p, q))
                  => Before(sl, iri_to_name(p), iri_to_name(q))

Subjects == {t.s : t \in g} \cup {t.o : t \in {x \in g : x.p # "rdf:type"}}

RangeTriples(p) == {t \in g : t.s = p /\ element_from_iri(t.p) = "range"}

\* C3: a processed field with two or more range triples does not fail convert and
\* gets any_of with one entry per range value and no scalar range.
C3_RangeDisjunction ==
    \A p \in Range(prop_order) :
        Cardinality(RangeTriples(p)) >= 2 =>
            /\ pc # "error"
            /\ IndexOf(slots, iri_to_name(p)) > 0
            /\ LET a == Named(slots, iri_to_name(p)).attrs
               IN  /\ "any_of" \in DOMAIN a
                   /\ "range" \notin DOMAIN a
                   /\ Len(ListOf(a, "any_of")) = Cardinality(RangeTriples(p))

\* C4: in the returned schema every subject and every object of a subClassOf
\* triple has a class definition named by its local name.
C4_SubclassEndsAreClasses ==
    pc = "done" =>
        \A t \in g : t.p = "rdfs:subClassOf" =>
            /\ IndexOf(classes, iri_to_name(t.s)) > 0
            /\ IndexOf(classes, iri_to_name(t.o)) > 0

C4_Witness ==
    /\ pc = "done"
    /\ \E t \in g : /\ t.p = "rdfs:subClassOf"
                    /\ t.o \notin ExplicitClasses
                    /\ t.s \notin ExplicitClasses
                    /\ IndexOf(classes, iri_to_name(t.o)) > 0
                    /\ Named(classes, iri_to_name(t.o)).class_uri = n3(t.o)

\* C5: field discovery finds exactly the subjects typed with a field marker and
\* the subjects of triples whose predicate resolves to domain_of or range; an
\* untyped property with a domainIncludes or rangeIncludes triple becomes a field.
C5_FieldDiscovery ==
    pc # "start" =>
        /\ props = ExplicitProps
                   \cup {t.s : t \in {x \in g : element_from_iri(x.p) \in {"domain_of", "range"}}}
        /\ \A t \in g : t.p \in {"http:domainIncludes", "http:rangeIncludes"} => t.s \in props
        /\ pc = "done" =>
               \A t \in g : t.p \in {"http:domainIncludes", "http:rangeIncludes"}
                               => IndexOf(slots, iri_to_name(t.s)) > 0

\* The subjects the definition of class c may have been built from
SubjectsOf(c) == {s \in rdfs_classes : iri_to_name(s) = c.name /\ n3(s) = c.class_uri}

\* C6: without an identifier, F is in the slot list of class C exactly when C's
\* name is among the domain_of values resolved for a field named F, or F is
\* listed under slots in the record resolved for C's subject.
C6_SlotMembership ==
    (pc = "done" /\ identifier = None) =>
        \A n \in DOMAIN classes :
        \A F \in {iri_to_name(x) : x \in Subjects} :
            F \in Range(classes[n].slots)
            <=> \/ \E p \in props : /\ iri_to_name(p) = F
                                    /\ classes[n].name \in Range(ListOf(RecordOf(p, "slot"), "domain_of"))
                \/ \E s \in SubjectsOf(classes[n]) :
                       F \in Range(ListOf(RecordOf(s, "class"), "slots"))

SeparatorSet == Range(Separators)

\* C7: applying iri_to_name to its own result returns that result.
C7_Idempotent ==
    Len(n_out) = 2 => n_out[2] = n_out[1]

KindsOfSeparator(v) == {sep \in SeparatorSet : Contains(v, sep)}

\* C7 amended: iri_to_name returns a suffix of its argument; applying it to its
\* own result returns that result exactly when the result holds no separator,
\* which is always so when the argument holds separators of one kind only.
C7_StableWithoutSeparator ==
    /\ Len(n_out) >= 1 =>
           /\ Len(n_out[1]) <= Len(v_in)
           /\ n_out[1] = SubSeq(v_in, Len(v_in) - Len(n_out[1]) + 1, Len(v_in))
           /\ Cardinality(KindsOfSeparator(v_in)) <= 1 => KindsOfSeparator(n_out[1]) = {}
    /\ Len(n_out) = 2 => (n_out[2] = n_out[1] <=> KindsOfSeparator(n_out[1]) = {})

C7_Witness ==
    /\ Len(n_out) = 2
    /\ Cardinality(KindsOfSeparator(v_in)) = 1
    /\ n_out[1] # v_in
    /\ n_out[1] # <<>>
    /\ n_out[2] = n_out[1]

\* C8: the canonical URI of every field and class definition of the returned
\* schema resolves, through iri_to_name, to the definition's name.
C8_UriRoundTrip ==
    pc = "done" =>
        /\ \A n \in DOMAIN slots :
               slots[n].slot_uri # None => iri_to_name(slots[n].slot_uri) = slots[n].name
        /\ \A n \in DOMAIN classes : iri_to_name(classes[n].class_uri) = classes[n].name

\* The record keys the mapped triples of s account for
MappedKeys(s) ==
    {IF element_from_iri(t.p) = "name" THEN "title" ELSE element_from_iri(t.p) :
        t \in {x \in g : x.s = s /\ x.p # "rdf:type" /\ element_from_iri(x.p) # None}}

\* C9: for every processed subject, slot or class, each of its triples whose
\* predicate has no reverse mapping adds nothing to the record, is warned about,
\* and does not stop the conversion.
C9_UnmappedWarned ==
    \A s \in Range(prop_order) \cup Range(class_order) :
        \A t \in g :
            (t.s = s /\ t.p # "rdf:type" /\ element_from_iri(t.p) = None) =>
                /\ t.p \in warnings
                /\ pc # "error"
                /\ s \in Range(prop_order) => DOMAIN RecordOf(s, "slot") \subseteq MappedKeys(s)
                /\ s \in Range(class_order) => DOMAIN RecordOf(s, "class") \subseteq MappedKeys(s)

\* Tier 1 then tier 2, as the claim words it: the defaults registered for a name
\* followed by the overrides registered for it.
RECURSIVE Registered(_, _, _)
Registered(items, name, n) ==
    IF n > Len(items) THEN <<>>
    ELSE (IF items[n].k = name
          THEN (IF items[n].is_list THEN items[n].vs ELSE <<items[n].vs>>)
          ELSE <<>>) \o Registered(items, name, n + 1)

Declared(name) == (CHOOSE n \in DOMAIN sv : sv[n].k = name)

AllNames ==
    {sv[n].k : n \in DOMAIN sv}
    \cup {DEFAULT_METAMODEL_MAPPINGS[n].k : n \in DOMAIN DEFAULT_METAMODEL_MAPPINGS}
    \cup {it.k : it \in OverrideItems}

\* C10: after construction the forward mapping of a metamodel element is exactly
\* what introspection declares for it; of any other name, the defaults followed
\* by the overrides.
C10_ForwardTiers ==
    pc = "ready" =>
        \A name \in AllNames :
            IF name \in {sv[n].k : n \in DOMAIN sv}
            THEN Get(metamodel_mappings, name) = sv[Declared(name)].vs
            ELSE Get(metamodel_mappings, name) =
                     Registered(DEFAULT_METAMODEL_MAPPINGS, name, 1)
                     \o Registered(initial_metamodel_mappings, name, 1)

C10_Witness ==
    /\ pc = "ready"
    /\ \E a, b \in DOMAIN initial_metamodel_mappings :
           /\ initial_metamodel_mappings[a].k = "domain_of"
           /\ initial_metamodel_mappings[b].k = "ClassDefinition"
    /\ Get(metamodel_mappings, "domain_of") = <<"linkml:domain_of", "http:domainIncludes">>
    /\ Get(metamodel_mappings, "ClassDefinition") =
           <<"rdfs:Class", "owl:Class", "skos:Concept", "ex:Kind">>

====
